---- MODULE Spec2Model ----
(***************************************************************************)
(* Federated-learning coordination core of FarmMate                        *)
(* (src/ai/federated_stub.py, served by src/ai/app.py).                    *)
(*                                                                         *)
(* The coordinator buffers client updates, validates them, and on the      *)
(* aggregation_threshold-th buffered update folds the buffer into a new    *)
(* global model (FedAvg).  Two readings of the code are modelled:          *)
(*   - sequential calls of the coordinator's methods (Spec and the other   *)
(*     specifications built from the atomic actions), and                  *)
(*   - the Flask service, whose request threads run the same methods       *)
(*     statement by statement with no lock (SpecConc).                     *)
(*                                                                         *)
(* Representation.                                                         *)
(*   numbers     exact rationals [kind |-> "num", n, d] (d > 0, reduced);  *)
(*               floating-point rounding is not modelled                   *)
(*   opaque      [kind |-> "opq", blob |-> id]: any JSON value that is not *)
(*               an int or a float (a list, a string, an object)           *)
(*   dict        a function from key names to values                       *)
(*   strings     farm ids are strings; a version string "1.0.0" is the     *)
(*               tuple <<1,0,0>>, f"1.{t}" is <<1,t>>, "" is <<>>; a hex   *)
(*               digest is a sequence of digits 0..15                      *)
(*   time        time.time() is the clock variable now, in whole seconds   *)
(*   ModelUpdate the fields the coordinator reads; timestamp and           *)
(*               validation_score are never read by it and are left out    *)
(***************************************************************************)
EXTENDS Integers, Sequences, FiniteSets, TLC

(***************************************************************************)
(* Program constants                                                       *)
(***************************************************************************)
aggregation_threshold == 5

\* length of hashlib.sha256(...).hexdigest()
DigestLen == 64

\* update.data_hash[:8]
PrefixLen == 8

(***************************************************************************)
(* Bounds of the model                                                     *)
(***************************************************************************)
\* the clock runs from 1 to MaxClock
MaxClock == 2

\* accepted appends in one behaviour of Spec, SpecReady and SpecTag
MaxAppends == 6

\* accepted appends in one behaviour of SpecVersions
MaxVersionAppends == 11

\* requests started in one behaviour of SpecConc once this many updates
\* have been appended
MaxConcAppends == 6

\* calls of validate_global_model in one behaviour of SpecHistory
MaxValidations == 102

\* calls of validate_global_model in one behaviour of SpecTrend
MaxTrendValidations == 22

\* in SpecTrend the draws of validate_global_model change only every
\* RunLength calls
RunLength == 5

\* SpecService: the accepted submissions and the model queries of a run
MaxServiceAppends == 6

MaxServiceValidations == 2

\* SpecPrivacy: the accepted submissions of a run
MaxPrivacyAppends == 5

(***************************************************************************)
(* Values                                                                  *)
(***************************************************************************)
None == [kind |-> "None"]

Abs(x) == IF x < 0 THEN -x ELSE x

RECURSIVE GCD(_, _)
GCD(a, b) == IF b = 0 THEN a ELSE GCD(b, a % b)

\* the rational n/d in lowest terms, d > 0
Rat(n, d) ==
    LET g == GCD(Abs(n), Abs(d))
        s == IF d < 0 THEN -1 ELSE 1
    IN  [kind |-> "num", n |-> s * (n \div g), d |-> s * (d \div g)]

Num(n) == Rat(n, 1)

Opaque(b) == [kind |-> "opq", blob |-> b]

\* isinstance(value, (int, float))
IsNumeric(v) == v.kind = "num"

RatAdd(a, b) == Rat(a.n * b.d + b.n * a.d, a.d * b.d)

\* value * update.sample_count
RatMulInt(a, k) == Rat(a.n * k, a.d)

\* value / total_samples
RatDivInt(a, k) == Rat(a.n, a.d * k)

EmptyDict == [k \in {} |-> Num(0)]

(***************************************************************************)
(* Inputs: what a client sends                                             *)
(***************************************************************************)
Content(farm_id, parameters, sample_count) ==
    [farm_id |-> farm_id, parameters |-> parameters, sample_count |-> sample_count]

Contents ==
    { Content("farm_001", [w |-> Num(1)], 1),
      Content("farm_002", [w |-> Num(4), m |-> Opaque(2)], 3),
      Content("farm_003", [w |-> Opaque(1)], 1),
      Content("farm_002", [m |-> Opaque(3)], 2) }

\* the contents sent to a coordinator that may not be initialized yet
EarlyContents ==
    { Content("farm_001", [w |-> Num(1)], 1),
      Content("farm_002", [w |-> Num(4), m |-> Opaque(2)], 3),
      Content("farm_003", [w |-> Opaque(1)], 1) }

Probe == Content("farm_001", [w |-> Num(1)], 1)

\* the probe with no parameters, or with a sample count that is not positive
BrokenContents ==
    { Content("farm_001", EmptyDict, 1),
      Content("farm_001", [w |-> Num(1)], 0),
      Content("farm_001", [w |-> Num(1)], -1) }

FarmIds == <<"farm_001", "farm_002", "farm_003", "farm_004", "farm_005">>

\* the end-to-end scenario: five farms, 10 samples each, w = 1..5
ScenarioContents ==
    { Content(FarmIds[i], [w |-> Num(i)], 10) : i \in 1..aggregation_threshold }

KnownContents == Contents \cup {Probe} \cup BrokenContents \cup ScenarioContents

(***************************************************************************)
(* Integrity tag                                                           *)
(***************************************************************************)
\* json.dumps(..., sort_keys=True) writes the keys in sorted order
SortedKeys == <<"m", "w">>

RECURSIVE DumpKeys(_, _)
DumpKeys(parameters, i) ==
    IF i > Len(SortedKeys) THEN <<>>
    ELSE LET k == SortedKeys[i]
             v == parameters[k]
             item == IF k \notin DOMAIN parameters THEN <<>>
                     ELSE IF IsNumeric(v)
                          THEN <<i, 1, IF v.n < 0 THEN 1 ELSE 0, Abs(v.n), v.d>>
                          ELSE <<i, 2, v.blob>>
         IN  item \o DumpKeys(parameters, i + 1)

\* f"{json.dumps(update.parameters, sort_keys=True)}{update.sample_count}"
\* as a sequence of naturals: the dump of the dict, a closing mark, the count
DataString(parameters, sample_count) ==
    DumpKeys(parameters, 1)
        \o <<0, IF sample_count < 0 THEN 1 ELSE 0, Abs(sample_count)>>

RECURSIVE Absorb(_, _, _)
Absorb(s, i, h) ==
    IF i > Len(s) THEN h ELSE Absorb(s, i + 1, (h * 31 + s[i] + 7) % 65521)

\* hashlib.sha256(data_string.encode()).hexdigest(): a fixed function from
\* the data string to DigestLen hex digits (a stand-in for SHA-256, which
\* the model cannot compute; only determinism and the length are relied on)
Sha256Hex(s) ==
    LET h == Absorb(s, 1, 17)
    IN  [i \in 1..DigestLen |-> (((h * 31 + i * i + 7 * i) % 65521) \div 16) % 16]

\* s[:n]
Prefix(s, n) == SubSeq(s, 1, IF Len(s) < n THEN Len(s) ELSE n)

\* s.startswith(p)
StartsWith(s, p) == Len(p) <= Len(s) /\ SubSeq(s, 1, Len(p)) = p

\* the digests of the data strings the inputs produce, computed once
Sha256Memo ==
    [s \in { DataString(c.parameters, c.sample_count) : c \in KnownContents }
        |-> Sha256Hex(s)]

\* hashlib.sha256(data_string.encode()).hexdigest() of lines 121-122, 381-382
DataHash(parameters, sample_count) ==
    LET data_string == DataString(parameters, sample_count)
    IN  IF data_string \in DOMAIN Sha256Memo THEN Sha256Memo[data_string]
        ELSE Sha256Hex(data_string)


(***************************************************************************)
(* FederatedLearningCoordinator: validation                                *)
(***************************************************************************)
ModelUpdate(farm_id, model_version, parameters, data_hash, sample_count) ==
    [farm_id |-> farm_id, model_version |-> model_version,
     parameters |-> parameters, data_hash |-> data_hash,
     sample_count |-> sample_count]

\* VerifyDataHash comparing one character too few (update.data_hash[:7])
VerifyDataHashShort(update) ==
    LET calculated_hash == DataHash(update.parameters, update.sample_count)
    IN  StartsWith(calculated_hash, Prefix(update.data_hash, PrefixLen - 1))

VerifyDataHash(update) ==
    LET calculated_hash == DataHash(update.parameters, update.sample_count)
    IN  StartsWith(calculated_hash, Prefix(update.data_hash, PrefixLen))

\* RequiredFields without the sample_count > 0 test
RequiredFieldsNoCount(update) ==
    /\ update.farm_id # ""
    /\ update.model_version # <<>>
    /\ DOMAIN update.parameters # {}
    /\ update.data_hash # <<>>

RequiredFields(update) ==
    /\ update.farm_id # ""
    /\ update.model_version # <<>>
    /\ DOMAIN update.parameters # {}
    /\ update.data_hash # <<>>
    /\ update.sample_count > 0

ValidateUpdate(update, current_version) ==
    /\ RequiredFields(update)
    /\ VerifyDataHash(update)
    /\ update.model_version = current_version

(***************************************************************************)
(* FederatedLearningCoordinator: FedAvg                                    *)
(***************************************************************************)
\* TotalSamples counting the updates instead of their samples
TotalSamplesCounted(updates) == Len(updates)

RECURSIVE TotalSamples(_)
TotalSamples(updates) ==
    IF updates = <<>> THEN 0
    ELSE Head(updates).sample_count + TotalSamples(Tail(updates))

\* InitAggregated forgetting the first update's weight
InitAggregatedUnweighted(first_update) == first_update.parameters

\* lines 147-152: the accumulator starts from the first update
InitAggregated(first_update) ==
    [key \in DOMAIN first_update.parameters |->
        LET value == first_update.parameters[key]
        IN  IF IsNumeric(value) THEN RatMulInt(value, first_update.sample_count)
            ELSE value]

\* line 158 raises TypeError when the accumulator holds a non-number under
\* a key for which this update carries a number (str += float, list += float)
AddRaises(aggregated, update) ==
    \E key \in DOMAIN update.parameters :
        /\ IsNumeric(update.parameters[key])
        /\ key \in DOMAIN aggregated
        /\ ~IsNumeric(aggregated[key])

\* AddUpdate letting a later update replace a non-numeric value
AddUpdateLastSeen(aggregated, update) ==
    [key \in DOMAIN aggregated |->
        IF key \in DOMAIN update.parameters
        THEN (IF IsNumeric(update.parameters[key])
              THEN RatAdd(aggregated[key],
                          RatMulInt(update.parameters[key], update.sample_count))
              ELSE update.parameters[key])
        ELSE aggregated[key]]

\* lines 156-158 for one update that does not raise
AddUpdate(aggregated, update) ==
    [key \in DOMAIN aggregated |->
        IF key \in DOMAIN update.parameters /\ IsNumeric(update.parameters[key])
        THEN RatAdd(aggregated[key],
                    RatMulInt(update.parameters[key], update.sample_count))
        ELSE aggregated[key]]

\* lines 155-158: [raised |-> TRUE] when an update raises
RECURSIVE AddUpdates(_, _)
AddUpdates(aggregated, rest) ==
    IF rest = <<>> THEN [raised |-> FALSE, parameters |-> aggregated]
    ELSE IF AddRaises(aggregated, Head(rest)) THEN [raised |-> TRUE]
    ELSE AddUpdates(AddUpdate(aggregated, Head(rest)), Tail(rest))

\* lines 161-163
Normalize(aggregated, total_samples) ==
    [key \in DOMAIN aggregated |->
        IF IsNumeric(aggregated[key]) THEN RatDivInt(aggregated[key], total_samples)
        ELSE aggregated[key]]

\* lines 143-163 on a non-empty batch read in one piece
FedAvg(updates) ==
    LET total_samples == TotalSamples(updates)
        summed == AddUpdates(InitAggregated(Head(updates)), Tail(updates))
    IN  IF summed.raised THEN [raised |-> TRUE]
        ELSE [raised |-> FALSE,
              parameters |-> Normalize(summed.parameters, total_samples),
              total_samples |-> total_samples]

\* f"1.{int(time.time())}"
MintVersion(t) == <<1, t>>

\* GlobalModel carrying no version
GlobalModelUnversioned(version, parameters, total_samples, last_updated, client_count) ==
    [version |-> <<>>, parameters |-> parameters,
     total_samples |-> total_samples, last_updated |-> last_updated,
     client_count |-> client_count]

\* GlobalModel recording no contributors
GlobalModelUncounted(version, parameters, total_samples, last_updated, client_count) ==
    [version |-> version, parameters |-> parameters,
     total_samples |-> total_samples, last_updated |-> last_updated,
     client_count |-> 0]

GlobalModel(version, parameters, total_samples, last_updated, client_count) ==
    [version |-> version, parameters |-> parameters,
     total_samples |-> total_samples, last_updated |-> last_updated,
     client_count |-> client_count]

(***************************************************************************)
(* State                                                                   *)
(***************************************************************************)
VARIABLES
    global_model,     \* coordinator.global_model: None or a GlobalModel
    client_updates,   \* coordinator.client_updates: the pending buffer
    model_version,    \* coordinator.model_version
    now,              \* the clock read by time.time(), in seconds
    result,           \* the last call made and the value it returned
    pc,               \* request threads: the statement each is about to run
    loc,              \* request threads: the local variables of each
    initialized,      \* history: initialize_global_model has been called
    appends,          \* history: number of updates appended to the buffer
    aggregations,     \* history: number of aggregations that published
    last_batch,       \* history: the buffer the last publishing aggregation read
    published,        \* history: versions of the GlobalModels installed so far
    ledger,           \* history: samples appended; updates and samples published
    performance_history,  \* validator.performance_history
    validations       \* history: number of calls of validate_global_model

coordinator == <<global_model, client_updates, model_version>>

threads == <<pc, loc>>

history == <<initialized, appends, aggregations, last_batch, published, ledger>>

validator == <<performance_history, validations>>

vars == <<global_model, client_updates, model_version, now, result, pc, loc,
          initialized, appends, aggregations, last_batch, published, ledger,
          performance_history, validations>>

\* the request threads of the Flask server (app.run serves each request on
\* a thread of its own)
Threads == {"request_1", "request_2"}

NoLocals ==
    [update |-> None, total_samples |-> 0, aggregated_parameters |-> EmptyDict,
     batch |-> <<>>]

NoLedger == [appended_samples |-> 0, client_count |-> 0, total_samples |-> 0]

Call(op, ret) == [op |-> op, ret |-> ret]

\* FederatedLearningCoordinator.__init__
Init ==
    /\ global_model = None
    /\ client_updates = <<>>
    /\ model_version = <<1, 0, 0>>
    /\ now = 1
    /\ result = Call("__init__", None)
    /\ pc = [t \in Threads |-> "idle"]
    /\ loc = [t \in Threads |-> NoLocals]
    /\ initialized = FALSE
    /\ appends = 0
    /\ aggregations = 0
    /\ last_batch = <<>>
    /\ published = <<>>
    /\ ledger = NoLedger
    /\ performance_history = <<>>
    /\ validations = 0

(***************************************************************************)
(* Inputs                                                                  *)
(***************************************************************************)
\* an update as a client (or the facade) builds it for content c: the tag
\* is the digest of (parameters, sample_count)
Stamped(c, version) ==
    ModelUpdate(c.farm_id, version, c.parameters,
                DataHash(c.parameters, c.sample_count), c.sample_count)

\* the tag with its digit at position i replaced by another digit
Corrupt(tag, i) == [tag EXCEPT ![i] = (@ + 1) % 16]

\* updates built correctly against the version `version`
WellFormed(contents, version) == { Stamped(c, version) : c \in contents }

\* the probe with one required field missing, or built against another version
Malformed(version) ==
    LET good == Stamped(Probe, version)
    IN  { [good EXCEPT !.data_hash = <<>>],
          [good EXCEPT !.data_hash = Corrupt(@, 1)],
          [good EXCEPT !.data_hash = Corrupt(@, PrefixLen)],
          [good EXCEPT !.farm_id = ""],
          [good EXCEPT !.model_version = <<>>],
          [good EXCEPT !.model_version = <<1, 0, 0>>],
          [good EXCEPT !.model_version = <<0, 9>>] }
        \cup { Stamped(c, version) : c \in BrokenContents }

\* the probe with its tag damaged or cut short
Retagged(version) ==
    LET good == Stamped(Probe, version)
    IN  { good,
          [good EXCEPT !.data_hash = Corrupt(@, PrefixLen + 1)],
          [good EXCEPT !.data_hash = Corrupt(@, PrefixLen)],
          [good EXCEPT !.data_hash = Corrupt(@, 1)],
          [good EXCEPT !.data_hash = Prefix(@, PrefixLen - 1)],
          [good EXCEPT !.data_hash = Corrupt(Prefix(@, PrefixLen - 1), 1)] }

Updates(version) == WellFormed(Contents, version) \cup Malformed(version)

EarlyUpdates(version) == WellFormed(EarlyContents, version) \cup Malformed(version)

InitialParameters == { [w |-> Num(0)], [w |-> Opaque(0), m |-> Num(1)] }

(***************************************************************************)
(* Return values                                                           *)
(***************************************************************************)
Rejected == [success |-> FALSE, error |-> "Invalid model update"]

Received(pending) == [success |-> TRUE, pending_updates |-> pending]

\* NoUpdates reporting success
NoUpdatesSucceeded == [success |-> TRUE, error |-> "No updates to aggregate"]

NoUpdates == [success |-> FALSE, error |-> "No updates to aggregate"]

AggregationFailed == [success |-> FALSE, message |-> "Failed to aggregate updates"]

AggregationCompleted(model, processed_updates) ==
    [success |-> TRUE,
     global_model |-> [version |-> model.version,
                       total_samples |-> model.total_samples,
                       client_count |-> processed_updates,
                       last_updated |-> model.last_updated]]

(***************************************************************************)
(* Coordinator operations, each call atomic                                *)
(***************************************************************************)
\* time passes
Tick ==
    /\ now < MaxClock
    /\ now' = now + 1
    /\ UNCHANGED <<coordinator, result, threads, history, validator>>

\* initialize_global_model(initial_parameters); the lifecycle calls it once
InitializeGlobalModel(initial_parameters) ==
    /\ ~initialized
    /\ global_model' = GlobalModel(model_version, initial_parameters, 0, now, 0)
    /\ result' = Call("initialize_global_model", global_model')
    /\ initialized' = TRUE
    /\ published' = Append(published, model_version)
    /\ UNCHANGED <<client_updates, model_version, now, validator, threads, appends,
                   aggregations, last_batch, ledger>>

\* the ledger after `update` was appended
Appended(update) ==
    [ledger EXCEPT !.appended_samples = @ + update.sample_count]

\* the ledger after `model` was published
Published(model) ==
    [ledger EXCEPT !.client_count = @ + model.client_count,
                   !.total_samples = @ + model.total_samples]

\* _aggregate_updates() on the buffer `updates` (the buffer after the append
\* of `update`); the caller returns the value as the value of its operation
\* `op`, with the entries `added` set in it
AggregateUpdatesReturning(updates, update, op, added) ==
    IF updates = <<>>
    THEN /\ result' = Call(op, added @@ NoUpdates)
         /\ client_updates' = updates
         /\ ledger' = Appended(update)
         /\ UNCHANGED <<global_model, model_version, aggregations, last_batch,
                        published>>
    ELSE LET avg == FedAvg(updates)
         IN  IF avg.raised
             THEN \* the except clause of lines 192-198: nothing is undone
                  /\ result' = Call(op, added @@ AggregationFailed)
                  /\ client_updates' = updates
                  /\ ledger' = Appended(update)
                  /\ UNCHANGED <<global_model, model_version, aggregations,
                                 last_batch, published>>
             ELSE /\ model_version' = MintVersion(now)
                  /\ global_model' = GlobalModel(model_version', avg.parameters,
                                                 avg.total_samples, now,
                                                 Len(updates))
                  /\ client_updates' = <<>>
                  /\ result' = Call(op, added @@ AggregationCompleted(global_model',
                                                              Len(updates)))
                  /\ aggregations' = aggregations + 1
                  /\ last_batch' = updates
                  /\ published' = Append(published, model_version')
                  /\ ledger' = [Appended(update) EXCEPT
                                   !.client_count = @ + global_model'.client_count,
                                   !.total_samples = @ + global_model'.total_samples]

\* submit_client_update(update); the caller returns the value as the value
\* of its operation `op`, with the entries `added` set in it
SubmitClientUpdateReturning(update, op, added) ==
    /\ UNCHANGED <<now, validator, threads, initialized>>
    /\ IF ~ValidateUpdate(update, model_version)
       THEN /\ result' = Call(op, added @@ Rejected)
            /\ UNCHANGED <<coordinator, appends, aggregations, last_batch,
                           published, ledger>>
       ELSE /\ appends' = appends + 1
            /\ IF Len(client_updates) + 1 >= aggregation_threshold
               THEN AggregateUpdatesReturning(Append(client_updates, update),
                                              update, op, added)
               ELSE /\ client_updates' = Append(client_updates, update)
                    /\ result' = Call(op, added @@ Received(Len(client_updates')))
                    /\ ledger' = Appended(update)
                    /\ UNCHANGED <<global_model, model_version, aggregations,
                                   last_batch, published>>

\* _aggregate_updates() called from submit_client_update
AggregateUpdates(updates, update) ==
    AggregateUpdatesReturning(updates, update, "submit_client_update", EmptyDict)

\* submit_client_update(update), called directly
SubmitClientUpdate(update) ==
    SubmitClientUpdateReturning(update, "submit_client_update", EmptyDict)

\* get_global_model(): reads, changes nothing
GetGlobalModel == global_model

RECURSIVE FarmIdsOf(_)
FarmIdsOf(updates) ==
    IF updates = <<>> THEN {}
    ELSE {Head(updates).farm_id} \cup FarmIdsOf(Tail(updates))

\* get_model_statistics(): reads, changes nothing
GetModelStatistics ==
    [global_model_version |-> model_version,
     pending_updates |-> Len(client_updates),
     aggregation_threshold |-> aggregation_threshold,
     total_clients |-> Cardinality(FarmIdsOf(client_updates)),
     last_aggregation |-> IF global_model # None THEN global_model.last_updated
                          ELSE None]

(***************************************************************************)
(* Spec: the coordinator from its construction, calls made one at a time   *)
(***************************************************************************)
Initialize == \E p \in InitialParameters : InitializeGlobalModel(p)

SubmitEarly ==
    /\ appends < MaxAppends
    /\ \E update \in EarlyUpdates(model_version) : SubmitClientUpdate(update)

Next == Initialize \/ SubmitEarly

Spec == Init /\ [][Next]_vars

(***************************************************************************)
(* SpecReady: the same, from a coordinator that has been initialized       *)
(***************************************************************************)
\* __init__ followed by initialize_global_model(p)
InitReady ==
    /\ \E p \in InitialParameters :
          global_model = GlobalModel(<<1, 0, 0>>, p, 0, 1, 0)
    /\ client_updates = <<>>
    /\ model_version = <<1, 0, 0>>
    /\ now = 1
    /\ result = Call("initialize_global_model", global_model)
    /\ pc = [t \in Threads |-> "idle"]
    /\ loc = [t \in Threads |-> NoLocals]
    /\ initialized = TRUE
    /\ appends = 0
    /\ aggregations = 0
    /\ last_batch = <<>>
    /\ published = << <<1, 0, 0>> >>
    /\ ledger = NoLedger
    /\ performance_history = <<>>
    /\ validations = 0

Submit ==
    /\ appends < MaxAppends
    /\ \E update \in Updates(model_version) : SubmitClientUpdate(update)

NextReady == Tick \/ Submit

SpecReady == InitReady /\ [][NextReady]_vars

(***************************************************************************)
(* SpecTag: an initialized coordinator receiving one content under tags    *)
(* that are right, damaged or cut short                                    *)
(***************************************************************************)
SubmitRetagged ==
    /\ appends < MaxAppends
    /\ \E update \in Retagged(model_version) : SubmitClientUpdate(update)

NextTag == SubmitRetagged

SpecTag == InitReady /\ [][NextTag]_vars

(***************************************************************************)
(* SpecVersions: an initialized coordinator run through two aggregations   *)
(***************************************************************************)
VersionContents ==
    { Content("farm_001", [w |-> Num(1)], 1),
      Content("farm_002", [w |-> Num(4), m |-> Opaque(2)], 3) }

SubmitVersioned ==
    /\ appends < MaxVersionAppends
    /\ \E c \in VersionContents, v \in {model_version, <<1, 0, 0>>} :
          SubmitClientUpdate(Stamped(c, v))

NextVersions == Tick \/ SubmitVersioned

SpecVersions == InitReady /\ [][NextVersions]_vars

(***************************************************************************)
(* SpecE2E: the end-to-end scenario, the five updates in any order         *)
(***************************************************************************)
InitializeScenario == InitializeGlobalModel([w |-> Num(0)])

SubmitScenario ==
    /\ initialized
    /\ appends < aggregation_threshold
    /\ \E c \in ScenarioContents :
          /\ \A i \in 1..Len(client_updates) : client_updates[i].farm_id # c.farm_id
          /\ SubmitClientUpdate(Stamped(c, model_version))

NextE2E == InitializeScenario \/ SubmitScenario

SpecE2E == Init /\ [][NextE2E]_vars

(***************************************************************************)
(* SpecConc: the service behind Flask.  Each request thread runs           *)
(* submit_farm_update -> submit_client_update -> _aggregate_updates one    *)
(* statement at a time; the code takes no lock, so the statements of two   *)
(* requests interleave (each read or write of coordinator state below is   *)
(* one step; the statements between them touch only locals).               *)
(***************************************************************************)
Goto(t, label) == pc' = [pc EXCEPT ![t] = label]

\* the request of thread t returns `ret`
Return(t, ret) ==
    /\ pc' = [pc EXCEPT ![t] = "idle"]
    /\ loc' = [loc EXCEPT ![t] = NoLocals]
    /\ result' = Call("submit_farm_update", ret)

\* submit_farm_update, lines 381-397: the update is stamped with the digest
\* of its content and with the coordinator's version as read here
Request(t, c) ==
    /\ pc[t] = "idle"
    /\ Goto(t, "validate")
    /\ loc' = [loc EXCEPT ![t].update = Stamped(c, model_version)]
    /\ UNCHANGED <<coordinator, now, validator, result, history>>

\* submit_client_update, lines 66-71: _validate_update reads model_version
Validate(t) ==
    /\ pc[t] = "validate"
    /\ IF ValidateUpdate(loc[t].update, model_version)
       THEN Goto(t, "append") /\ UNCHANGED <<loc, result>>
       ELSE Return(t, Rejected)
    /\ UNCHANGED <<coordinator, now, validator, history>>

\* line 74
AppendUpdate(t) ==
    /\ pc[t] = "append"
    /\ client_updates' = Append(client_updates, loc[t].update)
    /\ appends' = appends + 1
    /\ ledger' = Appended(loc[t].update)
    /\ Goto(t, "check")
    /\ UNCHANGED <<global_model, model_version, now, validator, result, loc, initialized,
                   aggregations, last_batch, published>>

\* lines 77-84
CheckThreshold(t) ==
    /\ pc[t] = "check"
    /\ IF Len(client_updates) >= aggregation_threshold
       THEN Goto(t, "aggregate") /\ UNCHANGED <<loc, result>>
       ELSE Return(t, Received(Len(client_updates)))
    /\ UNCHANGED <<coordinator, now, validator, history>>

\* _aggregate_updates, lines 134-138
AggregateEmpty(t) ==
    /\ pc[t] = "aggregate"
    /\ IF client_updates = <<>>
       THEN Return(t, NoUpdates)
       ELSE Goto(t, "total") /\ UNCHANGED <<loc, result>>
    /\ UNCHANGED <<coordinator, now, validator, history>>

\* line 143
AggregateTotal(t) ==
    /\ pc[t] = "total"
    /\ loc' = [loc EXCEPT ![t].total_samples = TotalSamples(client_updates)]
    /\ Goto(t, "first")
    /\ UNCHANGED <<coordinator, now, validator, result, history>>

\* lines 147-152; client_updates[0] raises IndexError on an empty buffer
AggregateFirst(t) ==
    /\ pc[t] = "first"
    /\ IF client_updates = <<>>
       THEN Return(t, AggregationFailed)
       ELSE /\ loc' = [loc EXCEPT
                          ![t].aggregated_parameters = InitAggregated(Head(client_updates)),
                          ![t].batch = <<Head(client_updates)>>]
            /\ Goto(t, "rest")
            /\ UNCHANGED result
    /\ UNCHANGED <<coordinator, now, validator, history>>

\* line 163 raises ZeroDivisionError when total_samples is 0
DivisionRaises(aggregated, total_samples) ==
    total_samples = 0 /\ \E key \in DOMAIN aggregated : IsNumeric(aggregated[key])

\* lines 155-163: client_updates[1:] is read here, the sums and the
\* division work on locals
AggregateRest(t) ==
    /\ pc[t] = "rest"
    /\ LET rest == IF client_updates = <<>> THEN <<>> ELSE Tail(client_updates)
           summed == AddUpdates(loc[t].aggregated_parameters, rest)
       IN  IF summed.raised \/ DivisionRaises(summed.parameters, loc[t].total_samples)
           THEN Return(t, AggregationFailed)
           ELSE /\ loc' = [loc EXCEPT
                              ![t].aggregated_parameters =
                                  Normalize(summed.parameters, loc[t].total_samples),
                              ![t].batch = @ \o rest]
                /\ Goto(t, "version")
                /\ UNCHANGED result
    /\ UNCHANGED <<coordinator, now, validator, history>>

\* line 166
AggregateVersion(t) ==
    /\ pc[t] = "version"
    /\ model_version' = MintVersion(now)
    /\ Goto(t, "model")
    /\ UNCHANGED <<global_model, client_updates, now, validator, result, loc, history>>

\* lines 167-173: version and client_count are read from the coordinator
AggregateModel(t) ==
    /\ pc[t] = "model"
    /\ global_model' = GlobalModel(model_version, loc[t].aggregated_parameters,
                                   loc[t].total_samples, now, Len(client_updates))
    /\ aggregations' = aggregations + 1
    /\ last_batch' = loc[t].batch
    /\ published' = Append(published, model_version)
    /\ ledger' = Published(global_model')
    /\ Goto(t, "clear")
    /\ UNCHANGED <<client_updates, model_version, now, validator, result, loc, initialized,
                   appends>>

\* lines 176-190
AggregateClear(t) ==
    /\ pc[t] = "clear"
    /\ client_updates' = <<>>
    /\ Return(t, AggregationCompleted(global_model, Len(client_updates)))
    /\ UNCHANGED <<global_model, model_version, now, validator, history>>

\* what the requests carry: two well-formed contents and one with
\* sampleCount 0 (the default of app.py line 240)
RequestContents ==
    { Content("farm_001", [w |-> Num(1)], 1),
      Content("farm_002", [w |-> Num(4), m |-> Opaque(2)], 3),
      Content("farm_001", [w |-> Num(1)], 0) }

Requesting ==
    /\ appends < MaxConcAppends
    /\ \E t \in Threads, c \in RequestContents : Request(t, c)

Validating == \E t \in Threads : Validate(t)

Appending == \E t \in Threads : AppendUpdate(t)

Checking == \E t \in Threads : CheckThreshold(t)

AggregatingEmpty == \E t \in Threads : AggregateEmpty(t)

AggregatingTotal == \E t \in Threads : AggregateTotal(t)

AggregatingFirst == \E t \in Threads : AggregateFirst(t)

AggregatingRest == \E t \in Threads : AggregateRest(t)

AggregatingVersion == \E t \in Threads : AggregateVersion(t)

AggregatingModel == \E t \in Threads : AggregateModel(t)

AggregatingClear == \E t \in Threads : AggregateClear(t)

NextConc ==
    \/ Requesting
    \/ Validating
    \/ Appending
    \/ Checking
    \/ AggregatingEmpty
    \/ AggregatingTotal
    \/ AggregatingFirst
    \/ AggregatingRest
    \/ AggregatingVersion
    \/ AggregatingModel
    \/ AggregatingClear

\* the service after FarmMateFederatedLearning.__init__, which initializes
\* the coordinator
SpecConc == InitReady /\ [][NextConc]_vars

(***************************************************************************)
(* SpecAggregate: an initialized coordinator whose aggregation step is     *)
(* also invoked on its own, whatever the buffer holds                      *)
(***************************************************************************)
\* _aggregate_updates() called directly: lines 131-198 on the buffer as it is
Aggregate ==
    /\ UNCHANGED <<now, validator, threads, initialized, appends>>
    /\ IF client_updates = <<>>
       THEN /\ result' = Call("_aggregate_updates", NoUpdates)
            /\ UNCHANGED <<coordinator, aggregations, last_batch, published,
                           ledger>>
       ELSE LET avg == FedAvg(client_updates)
            IN  IF avg.raised
                THEN /\ result' = Call("_aggregate_updates", AggregationFailed)
                     /\ UNCHANGED <<coordinator, aggregations, last_batch,
                                    published, ledger>>
                ELSE /\ model_version' = MintVersion(now)
                     /\ global_model' = GlobalModel(model_version', avg.parameters,
                                                    avg.total_samples, now,
                                                    Len(client_updates))
                     /\ client_updates' = <<>>
                     /\ result' = Call("_aggregate_updates",
                                       AggregationCompleted(global_model',
                                                            Len(client_updates)))
                     /\ aggregations' = aggregations + 1
                     /\ last_batch' = client_updates
                     /\ published' = Append(published, model_version')
                     /\ ledger' = Published(global_model')

NextAggregate == SubmitEarly \/ Aggregate

SpecAggregate == InitReady /\ [][NextAggregate]_vars

(***************************************************************************)
(* ModelValidator                                                          *)
(***************************************************************************)
\* "Keep only last 100 results"
HistoryCap == 100

\* performance_history[-10:] and performance_history[-20:-10]
TrendWindow == 10

\* change > 0.05, change < -0.05
TrendThreshold == Rat(1, 20)

RatNeg(a) == Rat(-a.n, a.d)

RatSub(a, b) == RatAdd(a, RatNeg(b))

RatMul(a, b) == Rat(a.n * b.n, a.d * b.d)

\* a / b, b not zero
RatDiv(a, b) == Rat(a.n * b.d, a.d * b.n)

\* a < b
RatLess(a, b) == a.n * b.d < b.n * a.d

\* min(a, b)
RatMin(a, b) == IF RatLess(b, a) THEN b ELSE a

\* sequence[start:stop] of Python: a negative index counts from the end,
\* and both ends are clipped to the sequence
SliceIndex(i, n) ==
    IF i < 0 THEN (IF i + n < 0 THEN 0 ELSE i + n)
    ELSE (IF i > n THEN n ELSE i)

Slice(sequence, start, stop) ==
    SubSeq(sequence, SliceIndex(start, Len(sequence)) + 1,
           SliceIndex(stop, Len(sequence)))

\* sequence[start:]
SliceFrom(sequence, start) == Slice(sequence, start, Len(sequence))

\* the three draws of np.random.uniform in validate_global_model
Draw(accuracy, precision, recall) ==
    [accuracy |-> accuracy, precision |-> precision, recall |-> recall]

\* lines 292-301; serial is a history field, the number of the call that
\* produced the result
ValidationResult(draw, timestamp, serial) ==
    LET f1_score == RatDiv(RatMulInt(RatMul(draw.precision, draw.recall), 2),
                           RatAdd(draw.precision, draw.recall))
    IN  [accuracy |-> draw.accuracy, precision |-> draw.precision,
         recall |-> draw.recall, f1_score |-> f1_score,
         overall_score |-> RatDivInt(RatAdd(draw.accuracy, f1_score), 2),
         timestamp |-> timestamp, serial |-> serial]

\* KeepLast keeping the oldest results instead (performance_history[:100])
KeepFirst(results) ==
    IF Len(results) > HistoryCap THEN Slice(results, 0, HistoryCap)
    ELSE results

\* lines 307-308
KeepLast(results) ==
    IF Len(results) > HistoryCap THEN SliceFrom(results, -HistoryCap)
    ELSE results

\* lines 303-308: the result joins the history
Scored(validation_result) ==
    /\ performance_history' = KeepLast(Append(performance_history,
                                              validation_result))
    /\ validations' = validations + 1
    /\ UNCHANGED <<coordinator, now, threads, history>>

\* validate_global_model(model): the model is not read
ValidateGlobalModel(draw) ==
    LET validation_result == ValidationResult(draw, now, validations + 1)
    IN  /\ Scored(validation_result)
        /\ result' = Call("validate_global_model", validation_result)

RECURSIVE RatSum(_)
RatSum(scores) ==
    IF scores = <<>> THEN Num(0) ELSE RatAdd(Head(scores), RatSum(Tail(scores)))

\* np.mean of a non-empty list
Mean(scores) == RatDivInt(RatSum(scores), Len(scores))

OverallScores(results) == [i \in 1..Len(results) |-> results[i].overall_score]

InsufficientData == [trend |-> "insufficient_data", change |-> Num(0)]

\* Classify counting a change of exactly 0.05 as a trend
ClassifyInclusive(change) ==
    IF ~RatLess(change, TrendThreshold) THEN "improving"
    ELSE IF ~RatLess(RatNeg(TrendThreshold), change) THEN "declining"
    ELSE "stable"

\* lines 338-343
Classify(change) ==
    IF RatLess(TrendThreshold, change) THEN "improving"
    ELSE IF RatLess(change, RatNeg(TrendThreshold)) THEN "declining"
    ELSE "stable"

\* the value get_performance_trend() returns for a history
PerformanceTrend(results) ==
    IF Len(results) < 2 THEN InsufficientData
    ELSE LET recent_scores == OverallScores(SliceFrom(results, -TrendWindow))
             older_scores == OverallScores(Slice(results, -2 * TrendWindow,
                                                 -TrendWindow))
         IN  IF older_scores = <<>> THEN InsufficientData
             ELSE LET recent_avg == Mean(recent_scores)
                      older_avg == Mean(older_scores)
                      change == RatSub(recent_avg, older_avg)
                  IN  [trend |-> Classify(change), change |-> change,
                       recent_average |-> recent_avg,
                       older_average |-> older_avg]

\* get_performance_trend(): assigns nothing
GetPerformanceTrend ==
    /\ result' = Call("get_performance_trend",
                      PerformanceTrend(performance_history))
    /\ UNCHANGED <<coordinator, now, threads, history, validator>>

(***************************************************************************)
(* SpecHistory: the validator scoring the global model again and again,    *)
(* past the cap of its history                                             *)
(***************************************************************************)
\* one outcome of the three draws (accuracy in [0.75, 0.95], precision and
\* recall in [0.70, 0.90])
SteadyDraw == Draw(Rat(4, 5), Rat(4, 5), Rat(4, 5))

ValidateSteady ==
    /\ validations < MaxValidations
    /\ ValidateGlobalModel(SteadyDraw)

NextHistory == ValidateSteady \/ GetPerformanceTrend

SpecHistory == Init /\ [][NextHistory]_vars

(***************************************************************************)
(* SpecTrend: the validator's trend over histories of up to                *)
(* MaxTrendValidations results whose scores move in runs                   *)
(***************************************************************************)
\* outcomes of the three draws: four with precision = recall, one without
TrendDraws ==
    { Draw(Rat(3, 4), Rat(3, 4), Rat(3, 4)),
      Draw(Rat(4, 5), Rat(4, 5), Rat(4, 5)),
      Draw(Rat(17, 20), Rat(17, 20), Rat(17, 20)),
      Draw(Rat(9, 10), Rat(9, 10), Rat(9, 10)),
      Draw(Rat(4, 5), Rat(7, 10), Rat(9, 10)) }

\* the draws behind the latest result
LastDraw ==
    LET last == performance_history[Len(performance_history)]
    IN  Draw(last.accuracy, last.precision, last.recall)

ValidateRun ==
    /\ validations < MaxTrendValidations
    /\ \E draw \in TrendDraws :
          /\ validations % RunLength # 0 => draw = LastDraw
          /\ ValidateGlobalModel(draw)

NextTrend == ValidateRun \/ GetPerformanceTrend

SpecTrend == Init /\ [][NextTrend]_vars

(***************************************************************************)
(* SpecScore: validate_client_update over its inputs                       *)
(***************************************************************************)
\* the fields of the update that validate_client_update reads, each a value
\* as a request can carry it: a number, or something that is not a number
\* (a JSON string), or None for an absent validation_score
ScoredUpdate(sample_count, validation_score) ==
    [sample_count |-> sample_count, validation_score |-> validation_score]

\* line 271 raises TypeError for a sample_count that is not a number, line
\* 273 (update.validation_score and update.validation_score > 0.8) for a
\* truthy validation_score that is not a number
ScoreRaises(update) ==
    \/ ~IsNumeric(update.sample_count)
    \/ update.validation_score # None /\ ~IsNumeric(update.validation_score)

\* Clamp without the cap of line 276
ClampNothing(validation_score) == validation_score

\* line 276: min(1.0, validation_score)
Clamp(validation_score) == RatMin(Num(1), validation_score)

\* validate_client_update(update) when np.random.uniform(0.6, 0.95)
\* returns `baseline`
ValidateClientUpdate(baseline, update) ==
    IF ScoreRaises(update) THEN Num(0)
    ELSE LET sized == IF RatLess(Num(100), update.sample_count)
                      THEN RatAdd(baseline, Rat(1, 20)) ELSE baseline
             vouched == IF /\ update.validation_score # None
                           /\ update.validation_score # Num(0)
                           /\ RatLess(Rat(4, 5), update.validation_score)
                        THEN RatAdd(sized, Rat(1, 10)) ELSE sized
         IN  Clamp(vouched)

\* outcomes of np.random.uniform(0.6, 0.95)
Baselines == {Rat(3, 5), Rat(4, 5), Rat(9, 10), Rat(19, 20)}

SampleCounts ==
    {Num(-1), Num(0), Num(1), Num(100), Num(101), Num(500), Opaque(1)}

SelfReportedScores ==
    {None, Num(0), Rat(1, 2), Rat(4, 5), Rat(81, 100), Num(1), Opaque(1)}

ScoreUpdate ==
    /\ \E baseline \in Baselines, sample_count \in SampleCounts,
          validation_score \in SelfReportedScores :
          LET update == ScoredUpdate(sample_count, validation_score)
          IN  result' = [op |-> "validate_client_update",
                         baseline |-> baseline, update |-> update,
                         ret |-> ValidateClientUpdate(baseline, update)]
    /\ UNCHANGED <<coordinator, now, threads, history, validator>>

NextScore == ScoreUpdate

SpecScore == Init /\ [][NextScore]_vars

(***************************************************************************)
(* PrivacyPreservingAggregator                                             *)
(***************************************************************************)
\* __init__
noise_scale == Rat(1, 10)

differential_privacy_epsilon == Num(1)

\* add_differential_privacy_noise(parameters) when the draw of
\* np.random.laplace for the value under key is noise[key]
AddDifferentialPrivacyNoise(parameters, noise) ==
    [key \in DOMAIN parameters |->
        IF IsNumeric(parameters[key]) THEN RatAdd(parameters[key], noise[key])
        ELSE parameters[key]]

\* SecureAdd adding the value without its weight
SecureAddUnweighted(aggregated, update, total_samples) ==
    LET numeric == { key \in DOMAIN update.parameters :
                        IsNumeric(update.parameters[key]) }
    IN  [key \in DOMAIN aggregated \cup numeric |->
            IF key \in numeric
            THEN RatAdd(IF key \in DOMAIN aggregated THEN aggregated[key]
                        ELSE Num(0),
                        update.parameters[key])
            ELSE aggregated[key]]

\* lines 244-250 for one update: value * weight with
\* weight = sample_count / total_samples, added under every key for which
\* the update carries a number
SecureAdd(aggregated, update, total_samples) ==
    LET numeric == { key \in DOMAIN update.parameters :
                        IsNumeric(update.parameters[key]) }
    IN  [key \in DOMAIN aggregated \cup numeric |->
            IF key \in numeric
            THEN RatAdd(IF key \in DOMAIN aggregated THEN aggregated[key]
                        ELSE Num(0),
                        RatDivInt(RatMulInt(update.parameters[key],
                                            update.sample_count),
                                  total_samples))
            ELSE aggregated[key]]

\* lines 244-250: the loop over the updates
RECURSIVE SecureSum(_, _, _)
SecureSum(aggregated, rest, total_samples) ==
    IF rest = <<>> THEN aggregated
    ELSE SecureSum(SecureAdd(aggregated, Head(rest), total_samples),
                   Tail(rest), total_samples)

\* the dictionary `aggregated` of secure_aggregation(updates) before the
\* noise is added; the updates carry positive sample counts
SecureAggregated(updates) == SecureSum(EmptyDict, updates, TotalSamples(updates))

\* secure_aggregation(updates): no attribute of any object is assigned
SecureAggregation(updates, noise) ==
    /\ result' = [op |-> "secure_aggregation", updates |-> updates,
                  aggregated |-> SecureAggregated(updates),
                  ret |-> AddDifferentialPrivacyNoise(SecureAggregated(updates),
                                                      noise)]
    /\ UNCHANGED <<coordinator, now, threads, history, validator>>

(***************************************************************************)
(* SpecPrivacy: an initialized coordinator receiving updates, and the      *)
(* privacy aggregator applied to the batches the coordinator holds or has  *)
(* aggregated                                                              *)
(***************************************************************************)
PrivacyContents ==
    { Content("farm_001", [w |-> Num(1)], 1),
      Content("farm_002", [w |-> Num(4), m |-> Opaque(2)], 3),
      Content("farm_002", [m |-> Opaque(3)], 2),
      Content("farm_003", [m |-> Num(2)], 1) }

\* outcomes of np.random.laplace(0, sensitivity / epsilon)
NoiseDraws == {Num(0), Rat(1, 2)}

Noises == [{"m", "w"} -> NoiseDraws]

SubmitPrivacy ==
    /\ appends < MaxPrivacyAppends
    /\ \E c \in PrivacyContents : SubmitClientUpdate(Stamped(c, model_version))

SecureAggregate ==
    \E updates \in {client_updates, last_batch} \ {<<>>}, noise \in Noises :
        SecureAggregation(updates, noise)

NextPrivacy == SubmitPrivacy \/ SecureAggregate

SpecPrivacy == InitReady /\ [][NextPrivacy]_vars

(***************************************************************************)
(* FarmMateFederatedLearning: the service object behind the routes.  Its   *)
(* constructor creates the coordinator, the privacy aggregator and the     *)
(* validator and initializes the global model (InitReady).                 *)
(***************************************************************************)
\* submit_farm_update(farm_id, model_parameters, sample_count,
\* validation_score) when np.random.uniform(0.6, 0.95) returns `baseline`.
\* The update is stamped with the coordinator's version and the digest of its
\* contents, scored by validate_client_update, handed to
\* submit_client_update, and the value of that call is returned with the
\* score and the farm_id added.  (The score is also stored in the update;
\* nothing reads it there.)
SubmitFarmUpdate(farm_id, model_parameters, sample_count, validation_score, baseline) ==
    LET update == Stamped(Content(farm_id, model_parameters, sample_count),
                          model_version)
        score == ValidateClientUpdate(baseline,
                     ScoredUpdate(Num(sample_count), validation_score))
    IN  SubmitClientUpdateReturning(update, "submit_farm_update",
            [validation_score |-> score, farm_id |-> farm_id])

NoGlobalModel == [success |-> FALSE, error |-> "No global model available"]

\* ServiceGetGlobalModel returning the model without scoring it
ServiceGetGlobalModelUnscored(draw) ==
    /\ result' = Call("get_global_model",
                      IF global_model = None THEN NoGlobalModel
                      ELSE [success |-> TRUE, model |-> global_model,
                            validation |-> None])
    /\ UNCHANGED <<coordinator, now, threads, history, validator>>

\* get_global_model() of the service
ServiceGetGlobalModel(draw) ==
    IF global_model = None
    THEN /\ result' = Call("get_global_model", NoGlobalModel)
         /\ UNCHANGED <<coordinator, now, threads, history, validator>>
    ELSE LET validation_result == ValidationResult(draw, now, validations + 1)
         IN  /\ Scored(validation_result)
             /\ result' = Call("get_global_model",
                   [success |-> TRUE,
                    model |-> [version |-> global_model.version,
                               parameters |-> global_model.parameters,
                               total_samples |-> global_model.total_samples,
                               client_count |-> global_model.client_count,
                               last_updated |-> global_model.last_updated],
                    validation |-> validation_result])

\* get_federated_learning_status()
GetFederatedLearningStatus ==
    /\ result' = Call("get_federated_learning_status",
                      [success |-> TRUE,
                       statistics |-> GetModelStatistics,
                       performance_trend |-> PerformanceTrend(performance_history),
                       privacy_settings |->
                           [differential_privacy_epsilon |->
                                differential_privacy_epsilon,
                            noise_scale |-> noise_scale]])
    /\ UNCHANGED <<coordinator, now, threads, history, validator>>

(***************************************************************************)
(* SpecService: the service called through its three operations, one call  *)
(* at a time                                                               *)
(***************************************************************************)
\* what the update route passes on: two well-formed bodies and the route's
\* defaults for a body without sampleCount
ServiceContents ==
    VersionContents \cup { Content("farm_001", [w |-> Num(1)], 0) }

ServiceScores == {None, Rat(9, 10)}

ServiceDraws ==
    { Draw(Rat(4, 5), Rat(4, 5), Rat(4, 5)),
      Draw(Rat(9, 10), Rat(9, 10), Rat(9, 10)) }

ServiceSubmit ==
    /\ appends < MaxServiceAppends
    /\ \E c \in ServiceContents, validation_score \in ServiceScores :
          SubmitFarmUpdate(c.farm_id, c.parameters, c.sample_count,
                           validation_score, Rat(4, 5))

ServiceModel ==
    /\ validations < MaxServiceValidations
    /\ \E draw \in ServiceDraws : ServiceGetGlobalModel(draw)

NextService == ServiceSubmit \/ ServiceModel \/ GetFederatedLearningStatus

SpecService == InitReady /\ [][NextService]_vars

(***************************************************************************)
(* Claims                                                                  *)
(***************************************************************************)
Pending == Len(client_updates)

\* C1: on an initialized coordinator called sequentially, after N valid
\* submissions with N < threshold no aggregation has occurred and
\* pendingCount = N; after N = threshold, exactly one aggregation has
\* occurred and pendingCount = 0.  (appends counts the submissions that
\* passed validation.)
C1_ThresholdCorrectness ==
    /\ appends < aggregation_threshold =>
          aggregations = 0 /\ Pending = appends
    /\ appends = aggregation_threshold =>
          aggregations = 1 /\ Pending = 0

\* the tag and the digest differ at one of the first n positions of the tag
DiffersWithin(tag, digest, n) ==
    \E i \in 1..n : i <= Len(tag) /\ tag[i] # digest[i]

\* the reasons for which the specification has an update rejected
FailsValidation(update, current_version) ==
    \/ update.farm_id = ""
    \/ update.model_version = <<>>
    \/ update.parameters = EmptyDict
    \/ update.data_hash = <<>>
    \/ update.sample_count <= 0
    \/ DiffersWithin(update.data_hash,
                     DataHash(update.parameters, update.sample_count), PrefixLen)
    \/ update.model_version # current_version

\* C2: a submission that fails validation (an empty farm id, version,
\* parameters or tag, a sample count <= 0, a tag that differs from the
\* digest within its first 8 characters, a version other than the current
\* one) returns the rejection and leaves the buffer, the global model and
\* the model version as they were.
C2_RejectionLeavesState ==
    [][\A update \in EarlyUpdates(model_version) :
          (FailsValidation(update, model_version) /\ SubmitClientUpdate(update))
              => (result'.ret = Rejected /\ UNCHANGED coordinator)]_vars

\* a rejection with updates pending and a model in place
C2_Witness ==
    /\ result = Call("submit_client_update", Rejected)
    /\ Pending = 3
    /\ global_model # None

ParameterKeys == {"m", "w"}

CarriedByAll(batch, key) ==
    \A i \in 1..Len(batch) :
        key \in DOMAIN batch[i].parameters /\ IsNumeric(batch[i].parameters[key])

RECURSIVE DenominatorProduct(_, _)
DenominatorProduct(batch, key) ==
    IF batch = <<>> THEN 1
    ELSE Head(batch).parameters[key].d * DenominatorProduct(Tail(batch), key)

\* sum of v_i * sampleCount_i, over the common denominator `common`
RECURSIVE WeightedSum(_, _, _)
WeightedSum(batch, key, common) ==
    IF batch = <<>> THEN 0
    ELSE LET v == Head(batch).parameters[key]
         IN  v.n * (common \div v.d) * Head(batch).sample_count
                 + WeightedSum(Tail(batch), key, common)

RECURSIVE WeightSum(_)
WeightSum(batch) ==
    IF batch = <<>> THEN 0 ELSE Head(batch).sample_count + WeightSum(Tail(batch))

\* value = sum(v_i * sampleCount_i) / sum(sampleCount_i), cross-multiplied
IsWeightedMean(value, batch, key) ==
    LET common == DenominatorProduct(batch, key)
    IN  /\ IsNumeric(value)
        /\ value.n * WeightSum(batch) * common = value.d * WeightedSum(batch, key, common)

\* C3: when a batch is aggregated and every update of it carries the
\* numeric key k, the published model has
\* parameters[k] = sum(v_i * sampleCount_i) / sum(sampleCount_i).
C3_WeightedMean ==
    aggregations > 0 =>
        \A key \in ParameterKeys :
            CarriedByAll(last_batch, key) =>
                /\ key \in DOMAIN global_model.parameters
                /\ IsWeightedMean(global_model.parameters[key], last_batch, key)

\* a published batch whose updates all carry w, with two weights and two values
C3_Witness ==
    /\ aggregations > 0
    /\ CarriedByAll(last_batch, "w")
    /\ \E i, j \in 1..Len(last_batch) :
          /\ last_batch[i].sample_count # last_batch[j].sample_count
          /\ last_batch[i].parameters["w"] # last_batch[j].parameters["w"]
    /\ global_model.parameters["w"].d # 1

\* C4: every aggregation publishes a version that differs from the version
\* of every GlobalModel installed before it (the initial one included),
\* whatever the timing of the aggregations.
C4_VersionsDistinct ==
    \A i, j \in 1..Len(published) : i # j => published[i] # published[j]

\* the statements of _aggregate_updates
AggregationLabels ==
    {"aggregate", "total", "first", "rest", "version", "model", "clear"}

\* C5: with requests served concurrently, no two executions of the
\* aggregation step are ever active at once.
C5_OneAggregationInFlight ==
    Cardinality({t \in Threads : pc[t] \in AggregationLabels}) <= 1

\* C6: no accepted update is lost or counted twice: once every request has
\* returned, the updates appended so far are those still pending plus those
\* counted in contributorCount by the published models, and likewise for
\* their samples and totalSamples.
C6_NoUpdateLost ==
    (\A t \in Threads : pc[t] = "idle") =>
        /\ appends = Pending + ledger.client_count
        /\ ledger.appended_samples
              = TotalSamples(client_updates) + ledger.total_samples

\* C7: wherever a reader runs, the version statistics() reports is the
\* version of the model currentModel() returns, and the reported
\* lastAggregationTime is that model's.
C7_ReadersSeeOneModel ==
    GetGlobalModel # None =>
        /\ GetModelStatistics.global_model_version = GetGlobalModel.version
        /\ GetModelStatistics.last_aggregation = GetGlobalModel.last_updated

\* C8: after initialize({w: 0}) and five valid submissions from distinct
\* farms with 10 samples each and w = 1..5, the global model has w = 3,
\* contributorCount 5, totalSamples 50, and the buffer is empty.
C8_EndToEnd ==
    (initialized /\ appends = aggregation_threshold) =>
        /\ global_model # None
        /\ global_model.parameters = [w |-> Num(3)]
        /\ global_model.client_count = 5
        /\ global_model.total_samples = 50
        /\ client_updates = <<>>

\* the five updates of the scenario have been submitted
C8_Witness ==
    /\ initialized
    /\ appends = aggregation_threshold
    /\ Len(last_batch) = 5
    /\ \A i, j \in 1..5 : i # j => last_batch[i].farm_id # last_batch[j].farm_id

\* C9 as stated: an update whose declared tag is not the digest recomputed
\* from its (parameters, sampleCount) is rejected and does not count toward
\* the threshold.
C9_CorruptedTagRejected ==
    [][\A update \in Retagged(model_version) :
          (/\ SubmitClientUpdate(update)
           /\ update.data_hash # DataHash(update.parameters, update.sample_count))
              => (/\ result'.ret = Rejected
                  /\ UNCHANGED <<client_updates, appends, aggregations>>)]_vars

\* the first 8 characters of the declared tag (all of it when it is
\* shorter) are not a prefix of the recomputed digest
PrefixMismatch(update) ==
    DiffersWithin(update.data_hash,
                  DataHash(update.parameters, update.sample_count), PrefixLen)

\* C9 amended: an update whose declared tag differs from the recomputed
\* digest within its first 8 characters is rejected and does not count
\* toward the threshold: the buffer keeps its length, and no aggregation
\* occurs before threshold updates have passed validation.
C9_MismatchedPrefixRejected ==
    [][/\ \A update \in Retagged(model_version) :
             (SubmitClientUpdate(update) /\ PrefixMismatch(update))
                 => (/\ result'.ret = Rejected
                     /\ UNCHANGED <<client_updates, appends, aggregations>>)
       /\ appends' < aggregation_threshold => aggregations' = 0]_vars

\* a damaged tag was rejected with threshold-1 updates pending (under
\* SpecTag a call is rejected only for a tag that differs in its first 8
\* characters)
C9_Witness ==
    /\ result = Call("submit_client_update", Rejected)
    /\ Pending = aggregation_threshold - 1
    /\ appends = aggregation_threshold - 1
    /\ aggregations = 0

\* C10: the coordinator has no GlobalModel before initialize has been
\* called, whatever submissions were made.
C10_NoneBeforeInitialize == ~initialized => global_model = None

\* C11: the aggregation step invoked on an empty buffer returns an error
\* outcome and leaves the global model, the model version and the (empty)
\* buffer as they were; and no aggregation ever publishes a model with zero
\* contributors.
C11_EmptyBatchFailsClosed ==
    [][/\ (Aggregate /\ client_updates = <<>>)
             => (/\ result'.ret.success = FALSE
                 /\ "error" \in DOMAIN result'.ret
                 /\ UNCHANGED coordinator
                 /\ UNCHANGED aggregations)
       /\ aggregations' > aggregations
             => (global_model'.client_count > 0 /\ global_model'.total_samples > 0)
      ]_vars

\* the aggregation step was invoked on the buffer a previous aggregation
\* had just emptied
C11_Witness ==
    /\ result = Call("_aggregate_updates", NoUpdates)
    /\ aggregations > 0
    /\ client_updates = <<>>
    /\ global_model.client_count > 0

\* C12: whenever a call of submit returns a failure (success = false, for
\* whatever reason, a failure of the aggregation it triggered included),
\* the buffer is what it was before the call: the update was not buffered
\* and pendingCount has not changed.
C12_FailureDoesNotBuffer ==
    [][\A update \in Updates(model_version) :
          (SubmitClientUpdate(update) /\ result'.ret.success = FALSE)
              => client_updates' = client_updates]_vars

Min(a, b) == IF a < b THEN a ELSE b

\* C13: after n calls of scoreGlobalModel the history has min(n, 100)
\* entries, and they are the results of the min(n, 100) most recent calls
\* in call order; the length never exceeds 100 between calls.
C13_HistoryBoundedFifo ==
    LET length == Len(performance_history)
    IN  /\ length = Min(validations, HistoryCap)
        /\ \A i \in 1..length :
              performance_history[i].serial = validations - length + i

\* 101 calls were made: the history holds the results of calls 2..101
C13_Witness ==
    /\ validations = HistoryCap + 1
    /\ Len(performance_history) = HistoryCap
    /\ performance_history[1].serial = 2
    /\ performance_history[HistoryCap].serial = HistoryCap + 1

\* C14: whenever the history holds fewer than 20 results, trend() returns
\* insufficient_data.
C14_TrendBoundary ==
    (/\ result.op = "get_performance_trend"
     /\ Len(performance_history) < 2 * TrendWindow)
        => result.ret.trend = "insufficient_data"

\* sum of the overall scores of history entries lo..hi
RECURSIVE ScoreSum(_, _)
ScoreSum(lo, hi) ==
    IF lo > hi THEN Num(0)
    ELSE RatAdd(performance_history[lo].overall_score, ScoreSum(lo + 1, hi))

WindowMean(lo, hi) == RatDivInt(ScoreSum(lo, hi), hi - lo + 1)

\* mean of the most recent 10 overall scores minus mean of the 10 before
WindowChange ==
    LET n == Len(performance_history)
    IN  RatSub(WindowMean(n - TrendWindow + 1, n),
               WindowMean(n - 2 * TrendWindow + 1, n - TrendWindow))

\* C15: with at least 20 results in the history, trend() returns
\* change = mean(overall of the latest 10) - mean(overall of the 10 before
\* them), improving iff change > 0.05, declining iff change < -0.05 and
\* stable otherwise (so for a change of exactly 0.05 or -0.05); a change of
\* 0.1 is improving; and trend() leaves the history as it was.
C15_TrendClassification ==
    [][result'.op = "get_performance_trend" =>
          /\ performance_history' = performance_history
          /\ Len(performance_history) >= 2 * TrendWindow =>
                LET change == WindowChange
                    trend == result'.ret.trend
                IN  /\ result'.ret.change = change
                    /\ trend \in {"improving", "declining", "stable"}
                    /\ trend = "improving" <=> 20 * change.n > change.d
                    /\ trend = "declining" <=> 20 * change.n < -change.d
                    /\ change \in {Rat(1, 20), Rat(-1, 20)} => trend = "stable"
                    /\ change = Rat(1, 10) => trend = "improving"
      ]_vars

\* trend() was called with 20 results whose last 10 average 0.1 above the
\* 10 before
C15_Witness ==
    /\ result.op = "get_performance_trend"
    /\ Len(performance_history) = 2 * TrendWindow
    /\ result.ret.change = Rat(1, 10)
    /\ result.ret.trend = "improving"

\* trend() was called at the boundary: a change of exactly 0.05
C15_Boundary ==
    /\ result.op = "get_performance_trend"
    /\ Len(performance_history) >= 2 * TrendWindow
    /\ result.ret.change = Rat(1, 20)
    /\ result.ret.trend = "stable"

\* a <= b for self-reported scores that are numbers or absent, an absent
\* score being the lowest
ScoreAtMost(a, b) ==
    \/ a = None /\ (b = None \/ IsNumeric(b))
    \/ a # None /\ b # None /\ IsNumeric(a) /\ IsNumeric(b) /\ ~RatLess(b, a)

\* C16: scoreUpdate returns a value in [0, 1] for every update and every
\* baseline draw, the error path included; and for a fixed baseline draw
\* the score does not decrease when sampleCount grows or when the
\* self-reported score grows (an absent self-reported score is the lowest).
C16_ScoreRangeAndMonotone ==
    result.op = "validate_client_update" =>
        LET score == result.ret
            update == result.update
        IN  /\ ~RatLess(score, Num(0))
            /\ ~RatLess(Num(1), score)
            /\ \A more \in SampleCounts :
                  (/\ IsNumeric(update.sample_count) /\ IsNumeric(more)
                   /\ ~RatLess(more, update.sample_count))
                      => ~RatLess(ValidateClientUpdate(result.baseline,
                                      [update EXCEPT !.sample_count = more]),
                                  score)
            /\ \A higher \in SelfReportedScores :
                  ScoreAtMost(update.validation_score, higher)
                      => ~RatLess(ValidateClientUpdate(result.baseline,
                                      [update EXCEPT !.validation_score = higher]),
                                  score)

\* an update with more than 100 samples and a self-reported score above
\* 0.8 was scored on the highest baseline: the score is capped at 1
C16_Witness ==
    /\ result.op = "validate_client_update"
    /\ result.baseline = Rat(19, 20)
    /\ result.update = ScoredUpdate(Num(101), Rat(81, 100))
    /\ result.ret = Num(1)

\* the error path: a sample count that is not a number scores 0
C16_ErrorPath ==
    /\ result.op = "validate_client_update"
    /\ ~IsNumeric(result.update.sample_count)
    /\ result.ret = Num(0)

\* the versions that were current before the present model was installed
PreviousVersions == { published[i] : i \in 1..(Len(published) - 1) }

\* C17: once an aggregation has changed the current model version, an
\* update tagged with a previously current version (the initial tag
\* included) is rejected and not buffered; an update is accepted only if it
\* is tagged with the version current at the time of the call.
C17_StaleRejected ==
    [][\A c \in VersionContents :
          /\ \A v \in PreviousVersions :
                (aggregations > 0 /\ SubmitClientUpdate(Stamped(c, v)))
                    => (/\ result'.ret = Rejected
                        /\ client_updates' = client_updates)
          /\ \A v \in {model_version, <<1, 0, 0>>} :
                (SubmitClientUpdate(Stamped(c, v)) /\ result'.ret # Rejected)
                    => v = model_version
      ]_vars

\* the updates of the batch that carry the key as a number
Carriers(batch, key) ==
    SelectSeq(batch, LAMBDA update :
        key \in DOMAIN update.parameters /\ IsNumeric(update.parameters[key]))

\* C18: for a numeric key of the first update of an aggregated batch, the
\* published value is sum(v_i * sampleCount_i) / sum(sampleCount_i), both
\* sums taken over the updates of the batch that carry the key as a number
\* (and not over the sample count of the whole batch).
C18_MeanOverCarriers ==
    aggregations > 0 =>
        \A key \in ParameterKeys :
            (/\ key \in DOMAIN Head(last_batch).parameters
             /\ IsNumeric(Head(last_batch).parameters[key]))
                => /\ key \in DOMAIN global_model.parameters
                   /\ IsWeightedMean(global_model.parameters[key],
                                     Carriers(last_batch, key), key)

\* C19: between the calls made one at a time to an initialized coordinator
\* the buffer holds between 0 and threshold-1 updates: the submit whose
\* append brings the buffer to the threshold aggregates and returns with
\* the buffer empty, whatever mix of numeric and non-numeric values the
\* validated updates carry under a key.
C19_BufferCycle ==
    /\ Pending \in 0..(aggregation_threshold - 1)
    /\ result.ret # AggregationFailed

\* C20: a submit that aggregates removes the whole buffer (the pending
\* updates and the one just appended) and publishes a model whose
\* totalSamples is the sum of sampleCount over the removed updates and
\* whose contributorCount is their number; totalSamples is positive.
C20_MetadataMatchesBatch ==
    [][aggregations' = aggregations + 1 =>
          \A update \in Updates(model_version) :
              SubmitClientUpdate(update)
                  => LET removed == Append(client_updates, update)
                     IN  /\ client_updates' = <<>>
                         /\ global_model'.total_samples = WeightSum(removed)
                         /\ global_model'.client_count = Len(removed)
                         /\ global_model'.total_samples > 0
      ]_vars

\* an aggregation has published a batch of updates of different weights
C20_Witness ==
    /\ aggregations = 1
    /\ result.ret.success
    /\ "global_model" \in DOMAIN result.ret
    /\ client_updates = <<>>
    /\ global_model.client_count = aggregation_threshold
    /\ global_model.total_samples > aggregation_threshold

\* C21: every GlobalModel published by an aggregation has contributorCount
\* equal to the aggregation threshold, also when submissions arrive
\* concurrently.
C21_BatchIsThreshold ==
    aggregations > 0 => global_model.client_count = aggregation_threshold

PrefixAgrees(update) ==
    /\ Len(update.data_hash) >= PrefixLen
    /\ Prefix(update.data_hash, PrefixLen)
          = Prefix(DataHash(update.parameters, update.sample_count), PrefixLen)

\* C23: an update (otherwise valid) is accepted exactly when the first 8
\* characters of its declared tag are the first 8 characters of the
\* recomputed digest; a tag that agrees with the digest on fewer than 8
\* characters, a non-empty tag shorter than 8 characters included, is
\* rejected.
C23_EightCharacterPrefix ==
    [][\A update \in Retagged(model_version) :
          SubmitClientUpdate(update)
              => (result'.ret # Rejected <=> PrefixAgrees(update))]_vars

\* C24: every successful aggregation triggered through submit_farm_update is
\* followed, before the call returns, by exactly one validate_global_model
\* of the newly published model: the validator's history gains one entry on
\* a submission that aggregates and none on a submission that does not.
C24_AggregationIsScored ==
    [][\A c \in ServiceContents, validation_score \in ServiceScores :
          SubmitFarmUpdate(c.farm_id, c.parameters, c.sample_count,
                           validation_score, Rat(4, 5))
              => IF aggregations' = aggregations + 1
                 THEN /\ validations' = validations + 1
                      /\ performance_history' # performance_history
                 ELSE UNCHANGED validator]_vars

\* C25: when a submission brings the buffer to the threshold, the
\* aggregation goes through the privacy aggregator: the parameters of the
\* published global model are secure_aggregation's output for the batch,
\* for some outcome of its noise draws.
C25_PublishedThroughPrivacy ==
    aggregations > 0 =>
        \E noise \in Noises :
            global_model.parameters
                = AddDifferentialPrivacyNoise(SecureAggregated(last_batch), noise)

\* the keys under which a dictionary holds a number
NumericKeysOf(parameters) ==
    { key \in DOMAIN parameters : IsNumeric(parameters[key]) }

\* the keys under which some update of the batch carries a number
RECURSIVE NumericKeysIn(_)
NumericKeysIn(updates) ==
    IF updates = <<>> THEN {}
    ELSE NumericKeysOf(Head(updates).parameters) \cup NumericKeysIn(Tail(updates))

\* C26: secure_aggregation follows the coordinator's weighting law.  For a
\* non-empty batch on which the coordinator's aggregation publishes, the
\* value secure_aggregation computes before the noise equals the published
\* value under every key that is numeric in the published parameters (the
\* numeric keys of the batch's first update); secure_aggregation moreover
\* yields a value under every key numeric in any update of the batch, so
\* the coordinator's numeric keys are a subset of its keys.
C26_SameWeightingLaw ==
    result.op = "secure_aggregation" =>
        LET avg == FedAvg(result.updates)
        IN  ~avg.raised =>
               /\ DOMAIN result.aggregated = NumericKeysIn(result.updates)
               /\ NumericKeysOf(avg.parameters) \subseteq DOMAIN result.aggregated
               /\ \A key \in NumericKeysOf(avg.parameters) :
                     result.aggregated[key] = avg.parameters[key]

\* a batch of two or more updates on which the two aggregations agree on a
\* key and secure_aggregation has a key the coordinator drops
C26_Witness ==
    /\ result.op = "secure_aggregation"
    /\ Len(result.updates) >= 2
    /\ ~FedAvg(result.updates).raised
    /\ NumericKeysOf(FedAvg(result.updates).parameters) # {}
    /\ DOMAIN result.aggregated # NumericKeysOf(FedAvg(result.updates).parameters)
    /\ \E key \in NumericKeysOf(FedAvg(result.updates).parameters) :
          result.aggregated[key] # Head(result.updates).parameters[key]

\* C26 as stated: on every batch on which the coordinator publishes, the
\* two aggregations agree on every numeric key and produce the same set of
\* numeric keys
C26_SameKeysAndValues ==
    result.op = "secure_aggregation" =>
        LET avg == FedAvg(result.updates)
        IN  ~avg.raised =>
               /\ DOMAIN result.aggregated = NumericKeysOf(avg.parameters)
               /\ \A key \in NumericKeysOf(avg.parameters) :
                     result.aggregated[key] = avg.parameters[key]

\* the outcomes with which an aggregation attempt reports an error
AggregationErrors == {NoUpdates, AggregationFailed}

\* C27: an aggregation attempt that ends with an error outcome (empty batch,
\* or an exception while the batch is combined) leaves the global model and
\* the coordinator's model version exactly as they were; and whenever the
\* version changes, a global model carrying the new version is installed in
\* the same call.
C27_NoPartialWrites ==
    [][/\ result'.ret \in AggregationErrors
             => UNCHANGED <<global_model, model_version>>
       /\ model_version' # model_version
             => /\ global_model' # global_model
                /\ global_model'.version = model_version'
                /\ result'.ret \notin AggregationErrors]_vars

\* an aggregation that failed on a coordinator that has aggregated before
C27_Witness ==
    /\ result = Call("_aggregate_updates", AggregationFailed)
    /\ aggregations > 0
    /\ client_updates # <<>>
    /\ model_version # <<1, 0, 0>>
    /\ global_model.version = model_version

\* a request with a farm id, parameters and a positive sample count
WellFormedRequest(update) ==
    /\ update.farm_id # ""
    /\ update.parameters # EmptyDict
    /\ update.sample_count > 0

\* C28: a well-formed submission through submit_farm_update is never
\* rejected by the coordinator's validation, also when other submissions
\* run between the read of the version (line 387) and the version check
\* (line 107).
C28_WellFormedAccepted ==
    [][\A t \in Threads :
          (Validate(t) /\ WellFormedRequest(loc[t].update))
              => pc'[t] = "append"]_vars

\* C29: every update in the pending buffer carries the coordinator's
\* current model version, whenever no request is between two statements
\* (and so in every state of a run whose calls are made one at a time).
C29_BufferCarriesCurrentVersion ==
    (\A t \in Threads : pc[t] = "idle")
        => \A i \in 1..Len(client_updates) :
              client_updates[i].model_version = model_version

\* C30: the query operations of the service.  get_global_model and
\* get_federated_learning_status leave the pending buffer, the model
\* version and the global model unchanged; the status also leaves the
\* validator's history unchanged and reports the trend of that history and
\* the coordinator's statistics; each get_global_model on the initialized
\* service appends exactly one validation result, the one it returns, to
\* the history, and returns the current global model.
C30_QueryFrame ==
    [][/\ GetFederatedLearningStatus
             => /\ UNCHANGED <<coordinator, validator>>
                /\ result'.ret.performance_trend
                      = PerformanceTrend(performance_history)
                /\ result'.ret.statistics.pending_updates = Len(client_updates)
                /\ result'.ret.statistics.global_model_version = model_version
       /\ \A draw \in ServiceDraws :
             ServiceGetGlobalModel(draw)
                 => /\ UNCHANGED coordinator
                    /\ validations' = validations + 1
                    /\ result'.ret.success
                    /\ performance_history'
                          = Append(performance_history, result'.ret.validation)
                    /\ result'.ret.model.version = global_model.version
                    /\ result'.ret.model.parameters = global_model.parameters]_vars

\* a status query on a service that holds pending updates, has aggregated
\* and has been asked for its model twice
C30_Witness ==
    /\ result.op = "get_federated_learning_status"
    /\ Len(performance_history) = 2
    /\ validations = 2
    /\ aggregations > 0
    /\ client_updates # <<>>
    /\ result.ret.statistics.pending_updates = Len(client_updates)

====
